---- MODULE Spec2Model ----
(***************************************************************************)
(* The constant-product automated market maker of                          *)
(* src/backend/automated_market_maker.py (class AutomatedMarketMaker).     *)
(*                                                                         *)
(* State: the pool store, the position store, the settlement ledger, the   *)
(* clock, and the quotes handed out to callers.  One action per public     *)
(* handler, each translated whole from its code.                           *)
(*                                                                         *)
(* Numbers.  The program computes in Python floats.  Here an amount is an  *)
(* integer number of token units and a ratio (price, price impact, fee     *)
(* rate, slippage) is an integer number of millionths (PPM).  Every        *)
(* multiply-then-divide of the code is evaluated exactly and rounded once  *)
(* to the nearest grid point, the way a float operation rounds to the      *)
(* nearest representable value.                                            *)
(*                                                                         *)
(* Stores.  The source's storage and transfer helpers (_get_pool_by_id,    *)
(* _store_liquidity_pool, _transfer_..., lines 640-718) are stand-ins that *)
(* return sample data or nothing ("In production, would query pools        *)
(* table").  They are modelled as the collaborators they stand for: a      *)
(* store that returns what was last saved, a ledger that records every     *)
(* confirmed transfer.  The handlers are translated from their code.       *)
(***************************************************************************)
EXTENDS Integers, Sequences, FiniteSets, TLC

(* ---------------------------- bounds ----------------------------------- *)
MaxCalls == 3
MaxTime == 6
MaxQuotes == 1

(* ----------------------- program constants ----------------------------- *)
PPM == 1000000
MILLI == 1000
default_fee_rate == 3000
slippage_tolerance == 20000
minimum_liquidity == 1000
price_impact_threshold == 50000
quote_ttl == 5
base_apy == 50000
volume_multiplier == 100000
loyalty_bonus == 20000
volume_24h == 1000
MinutesPerDay == 1440
supported_base_tokens == {"USDC", "ETH", "MATIC"}

(* ------------------------- float arithmetic ---------------------------- *)
Abs(x) == IF x < 0 THEN -x ELSE x
Sgn(x) == IF x < 0 THEN -1 ELSE IF x > 0 THEN 1 ELSE 0
Min(a, b) == IF a <= b THEN a ELSE b

\* The largest magnitude a quotient is let to take.  The program's floats go
\* far beyond it; the values that reach it here are ratios of several hundred
\* (a price impact of 50000 percent), which the program only compares with
\* thresholds below 1.
Huge == 2^29

\* <<q, r>> with a * b = q * c + r and 0 <= r < c, for a, b >= 0 and c > 0,
\* computed by doubling so that no intermediate value leaves the integers
\* the checker can hold; q is held at Huge.
RECURSIVE MulDivRem(_, _, _)
MulDivRem(a, b, c) ==
  IF b = 0 THEN <<0, 0>>
  ELSE LET h  == MulDivRem(a, b \div 2, c)
           qa == IF b % 2 = 1 THEN a \div c ELSE 0
           r2 == 2 * h[2] + (IF b % 2 = 1 THEN a % c ELSE 0)
       IN  <<Min(2 * h[1] + qa + (r2 \div c), Huge), r2 % c>>

\* a * b / c rounded to the nearest integer (c # 0).
MulDiv(a, b, c) ==
  LET qr == MulDivRem(Abs(a), Abs(b), Abs(c))
      q  == qr[1] + (IF 2 * qr[2] >= Abs(c) THEN 1 ELSE 0)
  IN  Sgn(a) * Sgn(b) * Sgn(c) * q

\* math.sqrt(n) rounded to the nearest integer, n >= 0.
RECURSIVE SqrtFloor(_, _, _)
SqrtFloor(n, lo, hi) ==
  IF lo >= hi THEN lo
  ELSE LET mid == (lo + hi + 1) \div 2
       IN  IF mid * mid <= n THEN SqrtFloor(n, mid, hi)
           ELSE SqrtFloor(n, lo, mid - 1)
Sqrt(n) ==
  LET s == SqrtFloor(n, 0, 46340)
  IN  IF n - s * s > s THEN s + 1 ELSE s

(* ------------------------------ state ---------------------------------- *)
VARIABLES
  pools,      \* pool store: pool_id -> LiquidityPool
  positions,  \* position store: position_id -> LiquidityPosition
  ledger,     \* settlement: pool_id -> net tokens moved into the pool
  quotes,     \* the TradeQuote values handed out, in order of issue
  issued,     \* history: the pool id and pool each quote was computed from
  applied,    \* history: how many times each quote was applied to reserves
  inflight,   \* the two concurrent requests: the objects each has loaded
  now,        \* datetime.utcnow(), in minutes
  calls,      \* number of handler calls made so far
  last        \* the last call: its handler and its outcome

vars == <<pools, positions, ledger, quotes, issued, applied, inflight, now,
          calls, last>>

\* The callers' inputs.
Users == {1, 2}
Traders == {2}
Procs == {1, 2}
TokenizedDomains == {1}
NoPool == <<0, "none", 0>>
None == -1

(* -------------------- the stores (Pool Store, Ledger) ------------------ *)
Store(S) == [pools |-> S.pools, positions |-> S.positions, ledger |-> S.ledger]

get_pool_by_id(S, pool_id) == S.pools[pool_id]
pool_exists(S, pool_id) == pool_id \in DOMAIN S.pools

get_pool_by_domain_and_base(S, domain_id, base_token) ==
  {id \in DOMAIN S.pools :
     S.pools[id].domain_id = domain_id /\ S.pools[id].base_token = base_token}

get_user_position(S, pool_id, user_id) ==
  {id \in DOMAIN S.positions :
     S.positions[id].pool_id = pool_id /\ S.positions[id].user_id = user_id}

store_liquidity_pool(S, pool) ==
  [S EXCEPT !.pools = (pool.pool_id :> pool) @@ S.pools]
update_liquidity_pool(S, pool) ==
  [S EXCEPT !.pools = (pool.pool_id :> pool) @@ S.pools]
store_liquidity_position(S, position) ==
  [S EXCEPT !.positions = (position.position_id :> position) @@ S.positions]
update_liquidity_position(S, position) ==
  [S EXCEPT !.positions = (position.position_id :> position) @@ S.positions]
remove_liquidity_position(S, position_id) ==
  [S EXCEPT !.positions =
     [id \in (DOMAIN S.positions) \ {position_id} |-> S.positions[id]]]

NoTransfers == [domain |-> 0, base |-> 0, rewards |-> 0, n |-> 0]
Settled(S, pool_id) ==
  IF pool_id \in DOMAIN S.ledger THEN S.ledger[pool_id] ELSE NoTransfers
\* A confirmed transfer of `amount` of one asset into (+) or out of (-) a pool.
transfer_domain_tokens(S, pool_id, amount) ==
  LET l == Settled(S, pool_id)
  IN  [S EXCEPT !.ledger = (pool_id :>
         [l EXCEPT !.domain = @ + amount, !.n = @ + 1]) @@ S.ledger]
transfer_base_tokens(S, pool_id, amount) ==
  LET l == Settled(S, pool_id)
  IN  [S EXCEPT !.ledger = (pool_id :>
         [l EXCEPT !.base = @ + amount, !.n = @ + 1]) @@ S.ledger]
transfer_rewards(S, pool_id, amount) ==
  LET l == Settled(S, pool_id)
  IN  [S EXCEPT !.ledger = (pool_id :>
         [l EXCEPT !.rewards = @ + amount, !.n = @ + 1]) @@ S.ledger]

\* The outcome of a handler: the stores it leaves and what it returns.
Raise(S, err) == [store |-> S, err |-> err]
Return(S) == [store |-> S, err |-> "ok"]

(* ------------------------ create_liquidity_pool ------------------------ *)
\* In every handler `fail` names the step of the call that raises, if any: a
\* transfer the ledger refuses or the commit of the transaction record.
\* The same checks without the look-up of an existing pool.
CreateCheckNoLookup(S, domain_id, base_token, initial_base_amount) ==
  IF domain_id \notin TokenizedDomains THEN "DomainNotFound"
  ELSE IF base_token \notin supported_base_tokens THEN "UnsupportedBaseToken"
  ELSE IF initial_base_amount < minimum_liquidity THEN "InsufficientLiquidity"
  ELSE "ok"

\* The first precondition of create_liquidity_pool that fails, or "ok".
CreateCheck(S, domain_id, base_token, initial_base_amount) ==
  IF domain_id \notin TokenizedDomains THEN "DomainNotFound"
  ELSE IF base_token \notin supported_base_tokens THEN "UnsupportedBaseToken"
  ELSE IF initial_base_amount < minimum_liquidity THEN "InsufficientLiquidity"
  ELSE IF get_pool_by_domain_and_base(S, domain_id, base_token) # {}
  THEN "AlreadyExists"
  ELSE "ok"

\* The arithmetic mean of the two amounts, where the code takes the
\* geometric mean.
InitialLiquidityMean(initial_domain_amount, initial_base_amount) ==
  (initial_domain_amount + initial_base_amount) \div 2

\* initial_liquidity = math.sqrt(initial_domain_amount * initial_base_amount)
InitialLiquidity(initial_domain_amount, initial_base_amount) ==
  Sqrt(initial_domain_amount * initial_base_amount)

create_liquidity_pool(S, t, domain_id, base_token, initial_domain_amount, initial_base_amount, creator_id, fail) ==
  IF CreateCheck(S, domain_id, base_token, initial_base_amount) # "ok"
  THEN Raise(S, CreateCheck(S, domain_id, base_token, initial_base_amount))
  ELSE
    LET initial_liquidity ==
          InitialLiquidity(initial_domain_amount, initial_base_amount)
        pool_id == <<domain_id, base_token, t>>
        pool == [pool_id |-> pool_id, domain_id |-> domain_id,
                 base_token |-> base_token,
                 domain_token_reserve |-> initial_domain_amount,
                 base_token_reserve |-> initial_base_amount,
                 total_liquidity_tokens |-> initial_liquidity,
                 fee_rate |-> default_fee_rate,
                 created_at |-> t, last_updated |-> t]
        position == [position_id |-> <<pool_id, creator_id, None>>,
                     pool_id |-> pool_id, user_id |-> creator_id,
                     liquidity_tokens |-> initial_liquidity,
                     initial_domain_amount |-> initial_domain_amount,
                     initial_base_amount |-> initial_base_amount,
                     created_at |-> t, rewards_earned |-> 0]
        S1 == transfer_domain_tokens(S, pool_id, initial_domain_amount)
        S2 == transfer_base_tokens(S1, pool_id, initial_base_amount)
        S3 == store_liquidity_position(store_liquidity_pool(S2, pool), position)
    IN  IF fail = "transfer1" THEN Raise(S, "TransferFailed")
        ELSE IF fail = "transfer2" THEN Raise(S1, "TransferFailed")
        ELSE IF fail = "commit" THEN Raise(S3, "CommitFailed")
        ELSE IF initial_domain_amount = 0 THEN Raise(S3, "ZeroDivision")
        ELSE Return(S3)

(* ---------------------------- add_liquidity ---------------------------- *)
\* The amounts as supplied, whatever the ratio of the reserves.
FinalAmountsAsSupplied(pool, domain_amount, base_amount) ==
  <<domain_amount, base_amount>>

\* <<final_domain_amount, final_base_amount>>: the supplied amounts cut down
\* to the ratio of the reserves (both reserves nonzero).
FinalAmounts(pool, domain_amount, base_amount) ==
  LET D == pool.domain_token_reserve
      B == pool.base_token_reserve
      optimal_base_amount == MulDiv(domain_amount, B, D)
      optimal_domain_amount == MulDiv(base_amount, D, B)
  IN  IF optimal_base_amount <= base_amount
      THEN <<domain_amount, optimal_base_amount>>
      ELSE <<optimal_domain_amount, base_amount>>

\* Shares minted against the reserves after the deposit, where the code
\* takes the reserves before it.
LiquidityTokensOfNewReserves(pool, final_domain_amount, final_base_amount) ==
  Min(MulDiv(final_domain_amount, pool.total_liquidity_tokens,
             pool.domain_token_reserve + final_domain_amount),
      MulDiv(final_base_amount, pool.total_liquidity_tokens,
             pool.base_token_reserve + final_base_amount))

\* liquidity_tokens = min(domain_liquidity, base_liquidity)
LiquidityTokensMinted(pool, final_domain_amount, final_base_amount) ==
  Min(MulDiv(final_domain_amount, pool.total_liquidity_tokens,
             pool.domain_token_reserve),
      MulDiv(final_base_amount, pool.total_liquidity_tokens,
             pool.base_token_reserve))

add_liquidity(S, t, pool_id, user_id, domain_amount, base_amount, fail) ==
  IF ~pool_exists(S, pool_id) THEN Raise(S, "NotFound")
  ELSE
    LET pool == get_pool_by_id(S, pool_id)
        D == pool.domain_token_reserve
        B == pool.base_token_reserve
        T == pool.total_liquidity_tokens
    IN
    \* current_ratio = base / domain; optimal_domain = base_amount / current_ratio
    IF D = 0 \/ B = 0 THEN Raise(S, "ZeroDivision")
    ELSE
      LET final == FinalAmounts(pool, domain_amount, base_amount)
          final_domain_amount == final[1]
          final_base_amount == final[2]
          liquidity_tokens ==
            LiquidityTokensMinted(pool, final_domain_amount, final_base_amount)
          S1 == transfer_domain_tokens(S, pool_id, final_domain_amount)
          S2 == transfer_base_tokens(S1, pool_id, final_base_amount)
          pool2 == [pool EXCEPT
                      !.domain_token_reserve = @ + final_domain_amount,
                      !.base_token_reserve = @ + final_base_amount,
                      !.total_liquidity_tokens = @ + liquidity_tokens,
                      !.last_updated = t]
          existing_position == get_user_position(S2, pool_id, user_id)
          position == [position_id |-> <<pool_id, user_id, t>>,
                       pool_id |-> pool_id, user_id |-> user_id,
                       liquidity_tokens |-> liquidity_tokens,
                       initial_domain_amount |-> final_domain_amount,
                       initial_base_amount |-> final_base_amount,
                       created_at |-> t, rewards_earned |-> 0]
          \* An existing position is changed in memory only: the handler
          \* makes no store call for it.
          S3 == IF existing_position # {} THEN S2
                ELSE store_liquidity_position(S2, position)
          S4 == update_liquidity_pool(S3, pool2)
      IN  IF fail = "transfer1" THEN Raise(S, "TransferFailed")
          ELSE IF fail = "transfer2" THEN Raise(S1, "TransferFailed")
          ELSE IF fail = "commit" THEN Raise(S4, "CommitFailed")
          \* new_pool_share = liquidity_tokens / pool.total_liquidity_tokens
          ELSE IF pool2.total_liquidity_tokens = 0 THEN Raise(S4, "ZeroDivision")
          ELSE Return(S4)

(* --------------------------- remove_liquidity -------------------------- *)
calculate_liquidity_rewards(position, pool, t) ==
  LET days_active == (t - position.created_at) \div MinutesPerDay
      base_rewards == MulDiv(position.initial_base_amount * days_active,
                             base_apy, 365 * PPM)
      volume_bonus == MulDiv(volume_24h * days_active,
                             volume_multiplier, 365 * PPM)
      loyalty == IF days_active > 30
                 THEN MulDiv(base_rewards, loyalty_bonus, PPM) ELSE 0
  IN  base_rewards + volume_bonus + loyalty

\* The position the handler works on: the user's position in the pool.
PositionOf(S, pool_id, user_id) ==
  S.positions[CHOOSE id \in get_user_position(S, pool_id, user_id) : TRUE]

\* The checks without the comparison against the shares held.
RemoveCheckNoHoldings(S, pool_id, user_id, liquidity_tokens) ==
  IF ~pool_exists(S, pool_id) THEN "NotFound"
  ELSE IF get_user_position(S, pool_id, user_id) = {}
  THEN "InsufficientLiquidity"
  ELSE "ok"

\* The checks of remove_liquidity in the order of the code: the error
\* raised, or "ok".
RemoveCheck(S, pool_id, user_id, liquidity_tokens) ==
  IF ~pool_exists(S, pool_id) THEN "NotFound"
  ELSE IF get_user_position(S, pool_id, user_id) = {}
  THEN "InsufficientLiquidity"
  ELSE IF PositionOf(S, pool_id, user_id).liquidity_tokens < liquidity_tokens
  THEN "InsufficientLiquidity"
  ELSE "ok"

\* Both amounts taken from the domain reserve.
RemoveAmountsOfOneReserve(pool, liquidity_tokens) ==
  <<MulDiv(pool.domain_token_reserve, liquidity_tokens,
           pool.total_liquidity_tokens),
    MulDiv(pool.domain_token_reserve, liquidity_tokens,
           pool.total_liquidity_tokens)>>

\* share = liquidity_tokens / total_liquidity_tokens;
\* <<domain_amount, base_amount>> = <<domain reserve, base reserve>> * share
RemoveAmounts(pool, liquidity_tokens) ==
  <<MulDiv(pool.domain_token_reserve, liquidity_tokens,
           pool.total_liquidity_tokens),
    MulDiv(pool.base_token_reserve, liquidity_tokens,
           pool.total_liquidity_tokens)>>

remove_liquidity(S, t, pool_id, user_id, liquidity_tokens, fail) ==
  IF RemoveCheck(S, pool_id, user_id, liquidity_tokens) # "ok"
  THEN Raise(S, RemoveCheck(S, pool_id, user_id, liquidity_tokens))
  ELSE
    LET pool == get_pool_by_id(S, pool_id)
        position == PositionOf(S, pool_id, user_id)
    IN
    \* share = liquidity_tokens / pool.total_liquidity_tokens
    IF pool.total_liquidity_tokens = 0 THEN Raise(S, "ZeroDivision")
    ELSE
      LET amounts == RemoveAmounts(pool, liquidity_tokens)
          domain_amount == amounts[1]
          base_amount == amounts[2]
          rewards == calculate_liquidity_rewards(position, pool, t)
          S1 == transfer_domain_tokens(S, pool_id, -domain_amount)
          S2 == transfer_base_tokens(S1, pool_id, -base_amount)
          S3 == IF rewards > 0 THEN transfer_rewards(S2, pool_id, rewards)
                ELSE S2
          pool2 == [pool EXCEPT
                      !.domain_token_reserve = @ - domain_amount,
                      !.base_token_reserve = @ - base_amount,
                      !.total_liquidity_tokens = @ - liquidity_tokens,
                      !.last_updated = t]
          position2 == [position EXCEPT
                          !.liquidity_tokens = @ - liquidity_tokens,
                          !.rewards_earned = @ + rewards]
          S4 == IF position2.liquidity_tokens <= 0
                THEN remove_liquidity_position(S3, position.position_id)
                ELSE update_liquidity_position(S3, position2)
          S5 == update_liquidity_pool(S4, pool2)
      IN  IF fail = "transfer1" THEN Raise(S, "TransferFailed")
          ELSE IF fail = "transfer2" THEN Raise(S1, "TransferFailed")
          ELSE IF fail = "rewards" /\ rewards > 0 THEN Raise(S2, "TransferFailed")
          ELSE IF fail = "commit" THEN Raise(S5, "CommitFailed")
          ELSE Return(S5)

(* ---------------------------- get_trade_quote -------------------------- *)
\* The input amount with no fee taken off.
InputAmountNoFee(fee_rate, input_amount) ==
  MulDiv(input_amount, PPM, MILLI)

\* input_amount_with_fee = input_amount * (1 - fee_rate), in thousandths of
\* a unit
InputAmountWithFee(fee_rate, input_amount) ==
  MulDiv(input_amount, PPM - fee_rate, MILLI)

\* The output at the price before the trade: the input is left out of the
\* denominator.
OutputAmountAtSpotPrice(input_reserve, output_reserve, amount_with_fee) ==
  MulDiv(amount_with_fee, output_reserve, input_reserve * MILLI)

\* The input taken off the denominator, where the code adds it.
OutputAmountMinus(input_reserve, output_reserve, amount_with_fee) ==
  MulDiv(amount_with_fee, output_reserve,
         input_reserve * MILLI - amount_with_fee)

\* output_amount = (input_amount_with_fee * output_reserve) /
\*                 (input_reserve + input_amount_with_fee)
OutputAmount(input_reserve, output_reserve, amount_with_fee) ==
  MulDiv(amount_with_fee, output_reserve,
         input_reserve * MILLI + amount_with_fee)

\* The TradeQuote for a pool of the given reserves, or the error raised.
TradeQuoteOf(pool, t, input_token, input_amount, slippage_arg) ==
  LET slippage == IF slippage_arg = None \/ slippage_arg = 0
                  THEN slippage_tolerance ELSE slippage_arg
      is_domain == input_token = "domain"
      input_reserve == IF is_domain THEN pool.domain_token_reserve
                       ELSE pool.base_token_reserve
      output_reserve == IF is_domain THEN pool.base_token_reserve
                        ELSE pool.domain_token_reserve
      output_token == IF is_domain THEN pool.base_token ELSE "domain"
      \* input_amount * (1 - fee_rate), in thousandths of a unit
      input_amount_with_fee == InputAmountWithFee(pool.fee_rate, input_amount)
      denominator == input_reserve * MILLI + input_amount_with_fee
      output_amount ==
        OutputAmount(input_reserve, output_reserve, input_amount_with_fee)
      price_before == MulDiv(output_reserve, PPM, input_reserve)
      new_input_reserve == input_reserve + input_amount
      new_output_reserve == output_reserve - output_amount
      price_after == MulDiv(new_output_reserve, PPM, new_input_reserve)
      price_impact == MulDiv(Abs(price_after - price_before), PPM, price_before)
      fee_amount == MulDiv(input_amount, pool.fee_rate, PPM)
      minimum_output == MulDiv(output_amount, PPM - slippage, PPM)
  IN  IF ~is_domain /\ input_token # pool.base_token
      THEN [err |-> "InvalidAsset"]
      ELSE IF denominator = 0 \/ input_reserve = 0 \/ new_input_reserve = 0
              \/ price_before = 0
      THEN [err |-> "ZeroDivision"]
      ELSE [err |-> "ok",
            quote |-> [input_token |-> input_token,
                       output_token |-> output_token,
                       input_amount |-> input_amount,
                       output_amount |-> output_amount,
                       price_impact |-> price_impact,
                       fee_amount |-> fee_amount,
                       minimum_output |-> minimum_output,
                       valid_until |-> t + quote_ttl]]

\* A get_trade_quote that stamps the pool it has priced.
get_trade_quote_touching(S, t, pool_id, input_token, input_amount, slippage_arg) ==
  IF ~pool_exists(S, pool_id) THEN [store |-> S, err |-> "NotFound"]
  ELSE LET pool == get_pool_by_id(S, pool_id)
           r == TradeQuoteOf(pool, t, input_token, input_amount, slippage_arg)
           S1 == update_liquidity_pool(S, [pool EXCEPT !.last_updated = t])
       IN  IF r.err = "ok" THEN [store |-> S1, err |-> "ok", quote |-> r.quote]
           ELSE [store |-> S1, err |-> r.err]

get_trade_quote(S, t, pool_id, input_token, input_amount, slippage_arg) ==
  IF ~pool_exists(S, pool_id) THEN [store |-> S, err |-> "NotFound"]
  ELSE LET r == TradeQuoteOf(get_pool_by_id(S, pool_id), t, input_token,
                             input_amount, slippage_arg)
       IN  IF r.err = "ok" THEN [store |-> S, err |-> "ok", quote |-> r.quote]
           ELSE [store |-> S, err |-> r.err]

(* ----------------------------- execute_trade --------------------------- *)
\* The reserves after the quote's amounts are applied, the fee kept out of
\* the pool.
ApplyQuoteNetOfFee(pool, quote) ==
  IF quote.input_token = "domain"
  THEN [pool EXCEPT !.domain_token_reserve =
                       @ + quote.input_amount - quote.fee_amount,
                    !.base_token_reserve = @ - quote.output_amount]
  ELSE [pool EXCEPT !.base_token_reserve =
                       @ + quote.input_amount - quote.fee_amount,
                    !.domain_token_reserve = @ - quote.output_amount]

\* The reserves after the quote's amounts are applied.
ApplyQuote(pool, quote) ==
  IF quote.input_token = "domain"
  THEN [pool EXCEPT !.domain_token_reserve = @ + quote.input_amount,
                    !.base_token_reserve = @ - quote.output_amount]
  ELSE [pool EXCEPT !.base_token_reserve = @ + quote.input_amount,
                    !.domain_token_reserve = @ - quote.output_amount]

\* The checks of execute_trade without the expiry check.
ExecuteCheckNoExpiry(S, t, pool_id, quote) ==
  IF ~pool_exists(S, pool_id) THEN "NotFound"
  ELSE IF quote.price_impact > price_impact_threshold
  THEN "ExcessivePriceImpact"
  ELSE "ok"

\* The checks of execute_trade with the price impact checked before the pool.
ExecuteCheckImpactFirst(S, t, pool_id, quote) ==
  IF t > quote.valid_until THEN "QuoteExpired"
  ELSE IF quote.price_impact > price_impact_threshold
  THEN "ExcessivePriceImpact"
  ELSE IF ~pool_exists(S, pool_id) THEN "NotFound"
  ELSE "ok"

\* The checks of execute_trade with a quote expiring at valid_until itself.
ExecuteCheckAtBoundary(S, t, pool_id, quote) ==
  IF t >= quote.valid_until THEN "QuoteExpired"
  ELSE IF ~pool_exists(S, pool_id) THEN "NotFound"
  ELSE IF quote.price_impact > price_impact_threshold
  THEN "ExcessivePriceImpact"
  ELSE "ok"

\* The first precondition of execute_trade that fails, or "ok".
ExecuteCheck(S, t, pool_id, quote) ==
  IF t > quote.valid_until THEN "QuoteExpired"
  ELSE IF ~pool_exists(S, pool_id) THEN "NotFound"
  ELSE IF quote.price_impact > price_impact_threshold
  THEN "ExcessivePriceImpact"
  ELSE "ok"

execute_trade(S, t, pool_id, quote, trader_id, fail) ==
  IF ExecuteCheck(S, t, pool_id, quote) # "ok"
  THEN Raise(S, ExecuteCheck(S, t, pool_id, quote))
  ELSE
    LET pool == get_pool_by_id(S, pool_id)
        is_domain == quote.input_token = "domain"
        S1 == IF is_domain
              THEN transfer_domain_tokens(S, pool_id, quote.input_amount)
              ELSE transfer_base_tokens(S, pool_id, quote.input_amount)
        S2 == IF is_domain
              THEN transfer_base_tokens(S1, pool_id, -quote.output_amount)
              ELSE transfer_domain_tokens(S1, pool_id, -quote.output_amount)
        pool2 == [ApplyQuote(pool, quote) EXCEPT !.last_updated = t]
        S3 == update_liquidity_pool(S2, pool2)
    IN  IF fail = "transfer1" THEN Raise(S, "TransferFailed")
        ELSE IF fail = "transfer2" THEN Raise(S1, "TransferFailed")
        ELSE IF fail = "commit" THEN Raise(S3, "CommitFailed")
        \* execution_price = quote.output_amount / quote.input_amount
        ELSE IF quote.input_amount = 0 THEN Raise(S3, "ZeroDivision")
        ELSE Return(S3)

\* The outcomes of execute_trade that come after its write of the pool.
Written == {"ok", "CommitFailed", "ZeroDivision"}

(* ------------------------------ the calls ------------------------------ *)
\* <<domain_id, base_token, initial_domain_amount, initial_base_amount>>
CreateArgs == {<<1, "USDC", 20000, 100000>>, <<1, "USDC", 0, 100000>>,
               <<1, "USDC", 20000, 500>>, <<1, "DAI", 20000, 100000>>,
               <<2, "USDC", 20000, 100000>>}
\* <<domain_amount, base_amount>>
AddAmounts == {<<1000, 5000>>, <<1000, 8000>>, <<-20000, -100000>>}
RemoveTokens == {-1000, 2236, 22360, 44721}
\* <<input_token, input_amount, slippage_tolerance>>
QuoteArgs == {<<"USDC", 2000, None>>, <<"USDC", 400, 0>>,
              <<"domain", 400, None>>, <<"domain", 2000, None>>,
              <<"USDC", -1000, None>>, <<"domain", 0, None>>,
              <<"DAI", 400, None>>}
ClockSteps == {5, 6}
TransferFails == {"none", "transfer1", "transfer2", "commit"}
RemoveFails == TransferFails \cup {"rewards"}

Current == [pools |-> pools, positions |-> positions, ledger |-> ledger]
PoolIdArgs == (DOMAIN pools) \cup {NoPool}

Idle == [pc |-> "idle"]
NoneInFlight == \A p \in Procs : inflight[p].pc = "idle"

Init ==
  /\ pools = <<>>
  /\ positions = <<>>
  /\ ledger = <<>>
  /\ quotes = <<>>
  /\ issued = <<>>
  /\ applied = <<>>
  /\ inflight = [p \in Procs |-> Idle]
  /\ now = 0
  /\ calls = 0
  /\ last = [op |-> "init", err |-> "ok"]

\* A call leaves the stores of its outcome `r` and reports its result.
Leaves(op, r) ==
  /\ pools' = r.store.pools
  /\ positions' = r.store.positions
  /\ ledger' = r.store.ledger
  /\ last' = [op |-> op, err |-> r.err]

\* `calls` counts the calls of the handlers that write the stores.
Outcome(op, result) ==
  \E r \in {result} :
    /\ Leaves(op, r)
    /\ calls' = calls + 1

CreatePool(domain_id, base_token, domain_amount, base_amount, creator_id, fail) ==
  /\ calls < MaxCalls
  /\ NoneInFlight
  /\ Outcome("create_liquidity_pool",
             create_liquidity_pool(Current, now, domain_id, base_token,
                                   domain_amount, base_amount, creator_id, fail))
  /\ UNCHANGED <<quotes, issued, applied, inflight, now>>

AddLiquidity(pool_id, user_id, domain_amount, base_amount, fail) ==
  /\ calls < MaxCalls
  /\ Outcome("add_liquidity",
             add_liquidity(Current, now, pool_id, user_id, domain_amount,
                           base_amount, fail))
  /\ UNCHANGED <<quotes, issued, applied, inflight, now>>

RemoveLiquidity(pool_id, user_id, liquidity_tokens, fail) ==
  /\ calls < MaxCalls
  /\ Outcome("remove_liquidity",
             remove_liquidity(Current, now, pool_id, user_id, liquidity_tokens,
                              fail))
  /\ UNCHANGED <<quotes, issued, applied, inflight, now>>

GetTradeQuote(pool_id, input_token, input_amount, slippage_arg) ==
  /\ Len(quotes) < MaxQuotes
  /\ NoneInFlight
  /\ \E r \in {get_trade_quote(Current, now, pool_id, input_token,
                               input_amount, slippage_arg)} :
       /\ Leaves("get_trade_quote", r)
       /\ quotes' = IF r.err = "ok" THEN Append(quotes, r.quote) ELSE quotes
       /\ issued' = IF r.err = "ok"
                    THEN Append(issued, [pool_id |-> pool_id,
                                         pool |-> pools[pool_id]])
                    ELSE issued
       /\ applied' = IF r.err = "ok" THEN Append(applied, 0) ELSE applied
  /\ UNCHANGED <<inflight, now, calls>>

ExecuteTrade(pool_id, q, trader_id, fail) ==
  /\ calls < MaxCalls
  /\ \E r \in {execute_trade(Current, now, pool_id, quotes[q], trader_id, fail)} :
       /\ Outcome("execute_trade", r)
       /\ applied' = [applied EXCEPT
                        ![q] = @ + (IF r.err \in Written THEN 1 ELSE 0)]
  /\ UNCHANGED <<quotes, issued, inflight, now>>

Tick(d) ==
  /\ now + d <= MaxTime
  /\ now' = now + d
  /\ UNCHANGED <<pools, positions, ledger, quotes, issued, applied, inflight,
                 calls, last>>

Next ==
  \/ \E c \in CreateArgs, fail \in TransferFails :
       CreatePool(c[1], c[2], c[3], c[4], 1, fail)
  \/ \E pool_id \in PoolIdArgs, user_id \in Users, a \in AddAmounts,
        fail \in TransferFails :
       AddLiquidity(pool_id, user_id, a[1], a[2], fail)
  \/ \E pool_id \in PoolIdArgs, user_id \in Users,
        liquidity_tokens \in RemoveTokens, fail \in RemoveFails :
       RemoveLiquidity(pool_id, user_id, liquidity_tokens, fail)
  \/ \E pool_id \in PoolIdArgs, a \in QuoteArgs :
       GetTradeQuote(pool_id, a[1], a[2], a[3])
  \/ \E pool_id \in PoolIdArgs, q \in DOMAIN quotes, trader_id \in Traders,
        fail \in TransferFails :
       ExecuteTrade(pool_id, q, trader_id, fail)
  \/ \E d \in ClockSteps : Tick(d)

Spec == Init /\ [][Next]_vars

(* ----------------------- two calls at the same time -------------------- *)
\* The handlers take no lock: a call loads its pool (remove_liquidity also its
\* position), and later writes back the record it loaded.  A call in flight
\* is [pc, call, pool, position, base, with]: the records it has loaded, the
\* stores as they were when it began and the calls then in flight.
Calls ==
  {[op |-> "execute_trade", pool_id |-> pool_id, user_id |-> 2, a |-> <<q>>] :
     pool_id \in DOMAIN pools, q \in DOMAIN quotes}
  \cup {[op |-> "add_liquidity", pool_id |-> pool_id, user_id |-> user_id,
         a |-> a] :
         pool_id \in DOMAIN pools, user_id \in Users, a \in AddAmounts}
  \cup {[op |-> "remove_liquidity", pool_id |-> pool_id, user_id |-> user_id,
         a |-> <<n>>] :
         pool_id \in DOMAIN pools, user_id \in Users, n \in RemoveTokens}

\* The handler of call c, run to its end on the stores S.
Run(S, t, c) ==
  CASE c.op = "execute_trade" ->
         execute_trade(S, t, c.pool_id, quotes[c.a[1]], c.user_id, "none")
    [] c.op = "add_liquidity" ->
         add_liquidity(S, t, c.pool_id, c.user_id, c.a[1], c.a[2], "none")
    [] c.op = "remove_liquidity" ->
         remove_liquidity(S, t, c.pool_id, c.user_id, c.a[1], "none")

\* The stores as the call in flight `f` sees them: the pool it loaded, the
\* position it loaded (remove_liquidity), everything else as it is now.
Loaded(f) ==
  LET mine == get_user_position(Current, f.call.pool_id, f.call.user_id)
      ids == IF f.call.op = "remove_liquidity"
             THEN ((DOMAIN positions) \ mine) \cup DOMAIN f.position
             ELSE DOMAIN positions
  IN  [pools |-> [pools EXCEPT ![f.call.pool_id] = f.pool],
       positions |-> [id \in ids |->
                        IF f.call.op = "remove_liquidity"
                           /\ id \in DOMAIN f.position
                        THEN f.position[id] ELSE positions[id]],
       ledger |-> ledger]

Reading == {p \in Procs : inflight[p].pc = "read"}

Begin(p, c) ==
  /\ inflight[p].pc = "idle"
  /\ calls + Cardinality(Reading) < MaxCalls
  /\ inflight' = [inflight EXCEPT ![p] =
        [pc |-> "read", call |-> c, pool |-> get_pool_by_id(Current, c.pool_id),
         position |-> [id \in get_user_position(Current, c.pool_id, c.user_id)
                         |-> positions[id]],
         base |-> Current, with |-> Reading]]
  /\ UNCHANGED <<pools, positions, ledger, quotes, issued, applied, now, calls,
                 last>>

\* The rest of the handler: with no failure injected it writes the pool (and
\* the position) exactly when it has made its transfers.
Finish(p) ==
  /\ inflight[p].pc = "read"
  /\ \E r \in {Run(Loaded(inflight[p]), now, inflight[p].call)} :
       LET wrote == r.store.ledger # ledger
           c == inflight[p].call
       IN  /\ pools' = IF wrote
                       THEN [pools EXCEPT ![c.pool_id] = r.store.pools[c.pool_id]]
                       ELSE pools
           /\ positions' = IF wrote THEN r.store.positions ELSE positions
           /\ ledger' = r.store.ledger
           /\ last' = [op |-> c.op, err |-> r.err]
           /\ applied' = IF c.op = "execute_trade" /\ wrote
                         THEN [applied EXCEPT ![c.a[1]] = @ + 1] ELSE applied
  /\ inflight' = [inflight EXCEPT ![p].pc = "done"]
  /\ calls' = calls + 1
  /\ UNCHANGED <<quotes, issued, now>>

Retire ==
  /\ Reading = {}
  /\ ~NoneInFlight
  /\ inflight' = [p \in Procs |-> Idle]
  /\ UNCHANGED <<pools, positions, ledger, quotes, issued, applied, now, calls,
                 last>>

NextC ==
  \/ \E c \in CreateArgs : CreatePool(c[1], c[2], c[3], c[4], 1, "none")
  \/ \E pool_id \in PoolIdArgs, a \in QuoteArgs :
       GetTradeQuote(pool_id, a[1], a[2], a[3])
  \/ \E p \in Procs, c \in Calls : Begin(p, c)
  \/ \E p \in Procs : Finish(p)
  \/ Retire
  \/ \E d \in ClockSteps : NoneInFlight /\ Tick(d)

SpecC == Init /\ [][NextC]_vars

(* ============================== the claims ============================= *)
\* a * b >= c * d, without forming the products.
ProductGE(a, b, c, d) ==
  LET m == MulDivRem(Abs(a), Abs(b), 65536)
      n == MulDivRem(Abs(c), Abs(d), 65536)
      s == Sgn(a) * Sgn(b)
      u == Sgn(c) * Sgn(d)
  IN  \/ s * m[1] > u * n[1]
      \/ s * m[1] = u * n[1] /\ s * m[2] >= u * n[2]

RECURSIVE SumShares(_)
SumShares(ids) ==
  IF ids = {} THEN 0
  ELSE LET id == CHOOSE i \in ids : TRUE
       IN  positions[id].liquidity_tokens + SumShares(ids \ {id})
PositionsOf(pool_id) ==
  {id \in DOMAIN positions : positions[id].pool_id = pool_id}

\* What a failed call must leave as it was: reserves, total shares, shares.
Holdings(ps, qs) ==
  <<[id \in DOMAIN ps |-> <<ps[id].domain_token_reserve,
                            ps[id].base_token_reserve,
                            ps[id].total_liquidity_tokens>>],
    [id \in DOMAIN qs |-> qs[id].liquidity_tokens]>>

\* C1 (as claimed): in every reachable state both reserves of every pool are
\* >= 0.  Violated: execute_trade applies a quote's amounts to whatever the
\* reserves are now and never refuses.
C1_NoNegativeReserves ==
  \A id \in DOMAIN pools :
    pools[id].domain_token_reserve >= 0 /\ pools[id].base_token_reserve >= 0

\* C2 (as claimed): a successful execute of a quote of positive input, on the
\* pool it was computed from and with the pool's liquidity as it was then,
\* does not decrease domain_reserve * base_reserve.  Violated: the amounts of
\* a quote computed before another swap are applied as they are.
C2_ProductNonDecreasing ==
  [][\A pool_id \in DOMAIN pools, q \in DOMAIN quotes :
       ( /\ last' = [op |-> "execute_trade", err |-> "ok"]
         /\ quotes[q].input_amount > 0
         /\ issued[q].pool_id = pool_id
         /\ issued[q].pool.total_liquidity_tokens
              = pools[pool_id].total_liquidity_tokens
         /\ ExecuteTrade(pool_id, q, 2, "none") )
       => ProductGE(pools'[pool_id].domain_token_reserve,
                    pools'[pool_id].base_token_reserve,
                    pools[pool_id].domain_token_reserve,
                    pools[pool_id].base_token_reserve)]_vars

\* C3 (as claimed): for every pool the shares of its stored positions sum to
\* the pool's total_liquidity_tokens, every position's shares are >= 0 and no
\* stored position has 0 shares.  Violated: add_liquidity by a provider who
\* already holds a position never saves that position.
C3_SharesAccounted ==
  /\ \A id \in DOMAIN pools :
       SumShares(PositionsOf(id)) = pools[id].total_liquidity_tokens
  /\ \A id \in DOMAIN positions : positions[id].liquidity_tokens > 0

C6_QuoteAppliedOnce ==
  \A q \in DOMAIN applied : applied[q] <= 1

\* C7 (as claimed): an execute_trade, add_liquidity or remove_liquidity call
\* that returns an error leaves every pool's reserves and total shares and
\* every position's shares as they were.  Violated: a step that raises after
\* the pool was written is not undone.
C7_AtomicOnFailure ==
  [][( /\ calls' = calls + 1
       /\ last'.op \in {"execute_trade", "add_liquidity", "remove_liquidity"}
       /\ last'.err # "ok" )
     => Holdings(pools', positions') = Holdings(pools, positions)]_vars

\* C8: execute_trade of a quote whose valid_until is earlier than the clock
\* fails with QuoteExpired, for every pool id, makes no transfer and leaves
\* every pool and every position as it was.
C8_ExpiredQuoteRejected ==
  [][\A pool_id \in PoolIdArgs, q \in DOMAIN quotes, fail \in TransferFails :
       ( /\ last'.op = "execute_trade"
         /\ now > quotes[q].valid_until
         /\ ExecuteTrade(pool_id, q, 2, fail) )
       => /\ last'.err = "QuoteExpired"
          /\ UNCHANGED <<pools, positions, ledger>>]_vars

C8_Witness ==
  /\ last = [op |-> "execute_trade", err |-> "QuoteExpired"]
  /\ \E q \in DOMAIN quotes : now > quotes[q].valid_until
  /\ DOMAIN pools # {}

\* C9 (as claimed): an unexpired quote whose price impact is above the
\* threshold is answered ExcessivePriceImpact even when pool_id names no pool.
C9_ImpactBeforePool ==
  [][\A pool_id \in PoolIdArgs, q \in DOMAIN quotes, fail \in TransferFails :
       ( /\ last'.op = "execute_trade"
         /\ now <= quotes[q].valid_until
         /\ quotes[q].price_impact > price_impact_threshold
         /\ ExecuteTrade(pool_id, q, 2, fail) )
       => last'.err = "ExcessivePriceImpact"]_vars

\* C9 (amended): execute_trade checks (a) the quote has not expired, then (c)
\* the pool exists, then (b) the price impact, and reports the first failure:
\* QuoteExpired whatever else is wrong, NotFound for an unexpired quote and an
\* unknown pool whatever the price impact, ExcessivePriceImpact only for an
\* unexpired quote and an existing pool.
C9_CheckOrder ==
  [][\A pool_id \in PoolIdArgs, q \in DOMAIN quotes, fail \in TransferFails :
       (last'.op = "execute_trade" /\ ExecuteTrade(pool_id, q, 2, fail))
       => /\ now > quotes[q].valid_until => last'.err = "QuoteExpired"
          /\ (now <= quotes[q].valid_until /\ pool_id \notin DOMAIN pools)
               => last'.err = "NotFound"
          /\ (now <= quotes[q].valid_until /\ pool_id \in DOMAIN pools
                /\ quotes[q].price_impact > price_impact_threshold)
               => last'.err = "ExcessivePriceImpact"]_vars

C9_Witness ==
  /\ last = [op |-> "execute_trade", err |-> "NotFound"]
  /\ \A q \in DOMAIN quotes :
       now <= quotes[q].valid_until
         /\ quotes[q].price_impact > price_impact_threshold
  /\ quotes # <<>>

\* C10: get_trade_quote, whether it returns a quote or fails, leaves every
\* pool, every position and the ledger as they were.  (The steps that end with
\* last.op = "get_trade_quote" are the calls of get_trade_quote and the clock
\* ticks after one; a tick changes `now`.)
C10_QuoteNeverMutates ==
  [][(last'.op = "get_trade_quote" /\ now' = now)
     => UNCHANGED <<pools, positions, ledger>>]_vars

C10_Witness ==
  /\ last = [op |-> "get_trade_quote", err |-> "ok"]
  /\ Len(quotes) = 1
  /\ issued[1].pool = pools[issued[1].pool_id]

\* The reserves and total shares of a pool in the stores S.
Reserves(S, pool_id) ==
  <<S.pools[pool_id].domain_token_reserve, S.pools[pool_id].base_token_reserve,
    S.pools[pool_id].total_liquidity_tokens>>

\* The stores after call c and then call d, each run alone, from the stores S.
OneAfterTheOther(S, c, d) == Run(Run(S, now, c).store, now, d).store

\* C4 (as claimed): when two of execute_trade, add_liquidity and
\* remove_liquidity have run at the same time against one pool, the pool's
\* reserves and total shares are those of running the two one after the other
\* in some order.  Violated: both load the pool before either writes it, and
\* the second write discards the first.
C4_NoLostUpdate ==
  \A p \in Procs, o \in Procs :
    ( /\ inflight[p].pc = "done" /\ inflight[o].pc = "done"
      /\ p \in inflight[o].with
      /\ inflight[p].call.pool_id = inflight[o].call.pool_id )
    => LET c == inflight[p].call
           d == inflight[o].call
           S == inflight[p].base
       IN  Reserves(Current, c.pool_id)
             \in {Reserves(OneAfterTheOther(S, c, d), c.pool_id),
                  Reserves(OneAfterTheOther(S, d, c), c.pool_id)}


(* ================= quotes as a function of pool and amount =============== *)
\* A pool is created with one of these <<initial_domain_amount,
\* initial_base_amount>>, then quoted for these amounts of either token, and
\* the quotes are executed.  Amounts are whole units, so the amounts quoted
\* for are far enough apart for their outputs to differ by more than the
\* rounding of an output.
QuotePools == {<<1000, 5000>>, <<20000, 100000>>}
QuoteTokens == {"domain", "USDC"}
QuoteAmounts == {1000, 5000, 20000, 100000, 500000}

\* get_trade_quote, for up to one quote more than MaxQuotes, so that two
\* quotes of one pool state can be compared.
QuoteFor(pool_id, input_token, input_amount, slippage_arg) ==
  /\ Len(quotes) <= MaxQuotes
  /\ \E r \in {get_trade_quote(Current, now, pool_id, input_token,
                               input_amount, slippage_arg)} :
       /\ Leaves("get_trade_quote", r)
       /\ quotes' = IF r.err = "ok" THEN Append(quotes, r.quote) ELSE quotes
       /\ issued' = IF r.err = "ok"
                    THEN Append(issued, [pool_id |-> pool_id,
                                         pool |-> pools[pool_id]])
                    ELSE issued
       /\ applied' = IF r.err = "ok" THEN Append(applied, 0) ELSE applied
  /\ UNCHANGED <<inflight, now, calls>>

NextQ ==
  \/ \E c \in QuotePools : CreatePool(1, "USDC", c[1], c[2], 1, "none")
  \/ \E pool_id \in DOMAIN pools, input_token \in QuoteTokens,
        input_amount \in QuoteAmounts :
       QuoteFor(pool_id, input_token, input_amount, None)
  \/ \E pool_id \in DOMAIN pools, q \in DOMAIN quotes, trader_id \in Traders :
       ExecuteTrade(pool_id, q, trader_id, "none")

SpecQ == Init /\ [][NextQ]_vars

\* |a * b - c * d| <= tol, without forming the products (tol < 2^29).
CloseProducts(a, b, c, d, tol) ==
  LET m == MulDivRem(Abs(a), Abs(b), 1048576)
      n == MulDivRem(Abs(c), Abs(d), 1048576)
      s == Sgn(a) * Sgn(b)
      u == Sgn(c) * Sgn(d)
      hi == s * m[1] - u * n[1]
  IN  /\ Abs(hi) <= 1000
      /\ Abs(hi * 1048576 + s * m[2] - u * n[2]) <= tol

\* The reserves of the pool state quote q was computed from.
InputReserve(q) ==
  IF quotes[q].input_token = "domain"
  THEN issued[q].pool.domain_token_reserve
  ELSE issued[q].pool.base_token_reserve

OutputReserve(q) ==
  IF quotes[q].input_token = "domain"
  THEN issued[q].pool.base_token_reserve
  ELSE issued[q].pool.domain_token_reserve

\* The fee-adjusted input of quote q in thousandths of a unit (fee rates are
\* whole thousandths).
EffectiveInput(q) ==
  quotes[q].input_amount * ((PPM - issued[q].pool.fee_rate) \div MILLI)

\* output_amount is output_reserve * x' / (input_reserve + x') to the nearest
\* unit, x' the fee-adjusted input.
ClosedForm(q) ==
  LET den == InputReserve(q) * MILLI + EffectiveInput(q)
  IN  CloseProducts(den, quotes[q].output_amount,
                    EffectiveInput(q), OutputReserve(q), den \div 2)

\* Two quotes of the same pool state and input token, the second for more.
Comparable(q1, q2) ==
  /\ issued[q1].pool = issued[q2].pool
  /\ quotes[q1].input_token = quotes[q2].input_token
  /\ 0 < quotes[q1].input_amount
  /\ quotes[q1].input_amount < quotes[q2].input_amount

\* C11: for a fixed pool state and input token, a larger input amount is
\* quoted a strictly larger output and a strictly smaller output per unit of
\* input, and each output is the constant-product closed form of its
\* fee-adjusted input.
C11_DiminishingReturns ==
  \A q1 \in DOMAIN quotes, q2 \in DOMAIN quotes :
    Comparable(q1, q2) =>
      /\ quotes[q1].output_amount < quotes[q2].output_amount
      /\ ~ProductGE(quotes[q2].output_amount, quotes[q1].input_amount,
                    quotes[q1].output_amount, quotes[q2].input_amount)
      /\ ClosedForm(q1)
      /\ ClosedForm(q2)

C11_Witness ==
  \E q1 \in DOMAIN quotes, q2 \in DOMAIN quotes :
    /\ Comparable(q1, q2)
    /\ quotes[q2].input_amount >= 100 * quotes[q1].input_amount
    /\ quotes[q1].output_amount < quotes[q2].output_amount

\* Quote q is the quote of the scenario: 1000 USDC into a pool of 1000 domain
\* tokens and 5000 USDC at a fee rate of 0.003.
ScenarioQuote(q) ==
  /\ issued[q].pool.domain_token_reserve = 1000
  /\ issued[q].pool.base_token_reserve = 5000
  /\ issued[q].pool.base_token = "USDC"
  /\ issued[q].pool.fee_rate = 3000
  /\ quotes[q].input_token = "USDC"
  /\ quotes[q].input_amount = 1000

\* C12 as stated: the scenario quote has a fee of 3 and an output of about
\* 2497.75 domain tokens.
C12_AsStated ==
  \A q \in DOMAIN quotes :
    ScenarioQuote(q) =>
      /\ quotes[q].fee_amount = 3
      /\ quotes[q].output_token = "domain"
      /\ quotes[q].output_amount \in 2497..2498

\* C12: the scenario quote has a fee of 3 and an output of
\* 1000 * 997 / (5000 + 997), about 166.25, domain tokens: the input reserve
\* is the base reserve 5000, the output reserve the domain reserve 1000, and
\* the effective input 997.
C12_ScenarioQuote ==
  \A q \in DOMAIN quotes :
    ScenarioQuote(q) =>
      /\ quotes[q].fee_amount = 3
      /\ quotes[q].output_token = "domain"
      /\ quotes[q].output_amount = 166
      /\ CloseProducts(quotes[q].output_amount, 5000 + 997, 1000, 997,
                       (5000 + 997) \div 2)

C12_Witness == \E q \in DOMAIN quotes : ScenarioQuote(q)

\* Executing quote q leaves both reserves of the pool positive whenever the
\* pool is still in the state the quote was computed from.
ExecutionKeepsReserves ==
  \A pool_id \in DOMAIN pools, q \in DOMAIN quotes :
    (/\ last'.op = "execute_trade"
     /\ pools[pool_id] = issued[q].pool
     /\ ExecuteTrade(pool_id, q, 2, "none"))
      => /\ pools'[pool_id].domain_token_reserve > 0
         /\ pools'[pool_id].base_token_reserve > 0

\* C13: a quote for a positive amount from a pool with positive reserves has
\* 0 < output_amount < output reserve, and executing a quote against the
\* pool state it was computed from leaves both reserves positive.
C13_OutputBelowReserve ==
  /\ [](\A q \in DOMAIN quotes :
          (/\ InputReserve(q) > 0
           /\ OutputReserve(q) > 0
           /\ quotes[q].input_amount > 0)
            => /\ 0 < quotes[q].output_amount
               /\ quotes[q].output_amount < OutputReserve(q))
  /\ [][ExecutionKeepsReserves]_vars

C13_Witness ==
  /\ last.op = "execute_trade"
  /\ last.err = "ok"
  /\ \E q \in DOMAIN quotes : applied[q] = 1
  /\ \E q \in DOMAIN quotes :
       /\ quotes[q].input_amount >= 20 * InputReserve(q)
       /\ quotes[q].output_amount < OutputReserve(q)


(* ===================== deposits and withdrawals ========================= *)
\* A pool is created with one of these amounts, providers deposit and
\* withdraw, and trades move the ratio of the reserves; no call fails midway.
LiquidityPools == {<<1000, 5000>>, <<20000, 100000>>}
DepositAmounts == {<<1000, 5000>>, <<1000, 8000>>, <<3000, 5000>>, <<500, 2500>>}
SwapArgs == {<<"USDC", 2000>>, <<"USDC", 100>>, <<"domain", 30>>}

\* The shares a provider asks to withdraw: all it holds, half of them, a
\* fixed 100, one more than it holds; 100 when it holds none.
RemoveChoices(S, pool_id, user_id) ==
  IF get_user_position(S, pool_id, user_id) = {} THEN {100}
  ELSE LET held == PositionOf(S, pool_id, user_id).liquidity_tokens
       IN  {held, held \div 2, 100, held + 1}

NextL ==
  \/ \E c \in LiquidityPools, creator_id \in Users :
       CreatePool(1, "USDC", c[1], c[2], creator_id, "none")
  \/ \E pool_id \in DOMAIN pools, user_id \in Users, a \in DepositAmounts :
       AddLiquidity(pool_id, user_id, a[1], a[2], "none")
  \/ \E pool_id \in DOMAIN pools, user_id \in Users :
       \E liquidity_tokens \in RemoveChoices(Current, pool_id, user_id) :
         RemoveLiquidity(pool_id, user_id, liquidity_tokens, "none")
  \/ \E pool_id \in DOMAIN pools, a \in SwapArgs :
       GetTradeQuote(pool_id, a[1], a[2], None)
  \/ \E pool_id \in DOMAIN pools, q \in DOMAIN quotes, trader_id \in Traders :
       ExecuteTrade(pool_id, q, trader_id, "none")

SpecL == Init /\ [][NextL]_vars

\* What the ledger records as moved into pool_id by the step.
MovedIn(pool_id) ==
  LET before == Settled(Current, pool_id)
      after == Settled([pools |-> pools', positions |-> positions',
                        ledger |-> ledger'], pool_id)
  IN  <<after.domain - before.domain, after.base - before.base>>

\* The step withdrew liquidity_tokens shares of pool_id in proportion: the
\* amounts paid out are D*s/T and B*s/T to the nearest unit, the reserves
\* fall by them, the total by s, and the ratio of the reserves stays within
\* the rounding of the two amounts.
Proportional(pool_id, liquidity_tokens) ==
  LET D == pools[pool_id].domain_token_reserve
      B == pools[pool_id].base_token_reserve
      T == pools[pool_id].total_liquidity_tokens
      D2 == pools'[pool_id].domain_token_reserve
      B2 == pools'[pool_id].base_token_reserve
      T2 == pools'[pool_id].total_liquidity_tokens
  IN  /\ MovedIn(pool_id) = <<D2 - D, B2 - B>>
      /\ CloseProducts(D - D2, T, D, liquidity_tokens, T \div 2)
      /\ CloseProducts(B - B2, T, B, liquidity_tokens, T \div 2)
      /\ T2 = T - liquidity_tokens
      /\ T2 > 0 => CloseProducts(B2, D, B, D2, (B + D) \div 2)
      /\ (D = 1000 /\ B = 5000 /\ 2 * liquidity_tokens = T)
           => D - D2 = 500 /\ B - B2 = 2500 /\ 2 * T2 = T

\* C14: remove_liquidity of s shares, 0 < s <= the provider's shares, from a
\* pool (D, B, T) pays out (D*s/T, B*s/T), reduces the reserves by those
\* amounts and the total by s, and leaves base reserve / domain reserve as it
\* was while shares remain; half the shares of a (1000, 5000) pool pay out
\* (500, 2500) and halve the total.
C14_ProportionalRemoval ==
  [][\A pool_id \in DOMAIN pools, user_id \in Users :
       \A liquidity_tokens \in RemoveChoices(Current, pool_id, user_id) :
         (/\ last'.op = "remove_liquidity"
          /\ last'.err = "ok"
          /\ liquidity_tokens > 0
          /\ pools[pool_id].domain_token_reserve > 0
          /\ pools[pool_id].base_token_reserve > 0
          /\ RemoveLiquidity(pool_id, user_id, liquidity_tokens, "none"))
           => Proportional(pool_id, liquidity_tokens)]_vars

C14_Witness ==
  /\ last.op = "remove_liquidity"
  /\ last.err = "ok"
  /\ \E pool_id \in DOMAIN pools :
       /\ pools[pool_id].domain_token_reserve = 500
       /\ pools[pool_id].base_token_reserve = 2500
       /\ pools[pool_id].total_liquidity_tokens = 1118


\* The shares user_id holds in pool_id according to the Pool Store S.
RECURSIVE SharesIn(_, _)
SharesIn(S, ids) ==
  IF ids = {} THEN 0
  ELSE LET id == CHOOSE k \in ids : TRUE
       IN  S.positions[id].liquidity_tokens + SharesIn(S, ids \ {id})

SharesOf(S, pool_id, user_id) ==
  SharesIn(S, get_user_position(S, pool_id, user_id))

\* Amounts are whole units.  The amounts paid out are each off by up to half
\* a unit, and the deposit scales them by the ratios of what is left in the
\* pool: what comes back is off by up to this many units.
RoundingOf(before, mid) ==
  (before.domain_token_reserve + before.base_token_reserve
     + before.total_liquidity_tokens)
    \div Min(mid.domain_token_reserve, mid.base_token_reserve) + 1

\* remove_liquidity of liquidity_tokens followed at once by add_liquidity of
\* the two amounts paid out restores the pool; with_shares says whether the
\* provider's own shares are looked at too.
RestoredBy(pool_id, user_id, liquidity_tokens, with_shares) ==
  LET before == pools[pool_id]
      r1 == remove_liquidity(Current, now, pool_id, user_id,
                             liquidity_tokens, "none")
      mid == r1.store.pools[pool_id]
      domain_amount == before.domain_token_reserve - mid.domain_token_reserve
      base_amount == before.base_token_reserve - mid.base_token_reserve
      r2 == add_liquidity(r1.store, now, pool_id, user_id, domain_amount,
                          base_amount, "none")
      after == r2.store.pools[pool_id]
      tol == RoundingOf(before, mid)
  IN  (/\ r1.err = "ok"
       /\ mid.domain_token_reserve > 0
       /\ mid.base_token_reserve > 0) =>
        /\ r2.err = "ok"
        \* mints s shares and restores the total
        /\ Abs(after.total_liquidity_tokens - before.total_liquidity_tokens)
             <= tol
        \* uses both amounts in full and restores the reserves
        /\ Abs(after.domain_token_reserve - before.domain_token_reserve) <= tol
        /\ Abs(after.base_token_reserve - before.base_token_reserve) <= tol
        /\ with_shares =>
             Abs(SharesOf(r2.store, pool_id, user_id)
                   - SharesOf(Current, pool_id, user_id)) <= tol

\* The round trips of a state: every provider of every pool with positive
\* reserves, withdrawing some but not all of the pool's shares.
RoundTrips(with_shares) ==
  \A pool_id \in DOMAIN pools, user_id \in Users :
    \A liquidity_tokens \in RemoveChoices(Current, pool_id, user_id) :
      (/\ get_user_position(Current, pool_id, user_id) # {}
       /\ pools[pool_id].domain_token_reserve > 0
       /\ pools[pool_id].base_token_reserve > 0
       /\ 0 < liquidity_tokens
       /\ liquidity_tokens < pools[pool_id].total_liquidity_tokens)
        => RestoredBy(pool_id, user_id, liquidity_tokens, with_shares)

\* C15 (as claimed): removing s shares and at once adding back the amounts
\* paid out mints s shares, uses both amounts in full, and restores the
\* reserves, the total and the provider's shares.  Violated: a provider that
\* keeps part of its position gets no shares back, see C3.
C15_RoundTrip == RoundTrips(TRUE)

\* The pool's side of the round trip, which does hold.
PoolRoundTrip == RoundTrips(FALSE)


\* The step is a successful add_liquidity(pool_id, user_id, domain_amount,
\* base_amount) to a pool with positive reserves.
Deposited(pool_id, user_id, domain_amount, base_amount) ==
  /\ last'.op = "add_liquidity"
  /\ last'.err = "ok"
  /\ pools[pool_id].domain_token_reserve > 0
  /\ pools[pool_id].base_token_reserve > 0
  /\ domain_amount > 0
  /\ base_amount > 0
  /\ AddLiquidity(pool_id, user_id, domain_amount, base_amount, "none")

\* The amounts the step consumed are within the amounts supplied, one of them
\* in full, in the ratio of the reserves to the nearest unit; the reserves
\* grow by what the ledger shows moved in, so that their ratio stays within
\* that rounding.
UsedInRatio(pool_id, domain_amount, base_amount) ==
  LET D == pools[pool_id].domain_token_reserve
      B == pools[pool_id].base_token_reserve
      D2 == pools'[pool_id].domain_token_reserve
      B2 == pools'[pool_id].base_token_reserve
      domain_used == D2 - D
      base_used == B2 - B
  IN  /\ MovedIn(pool_id) = <<domain_used, base_used>>
      /\ 0 < domain_used /\ domain_used <= domain_amount
      /\ 0 < base_used /\ base_used <= base_amount
      /\ domain_used = domain_amount \/ base_used = base_amount
      /\ CloseProducts(domain_used, B, base_used, D, (B + D) \div 2)
      /\ CloseProducts(B2, D, B, D2, (B + D) \div 2)

\* C16: add_liquidity to a pool with positive reserves of positive amounts
\* consumes no more than either amount supplied and one of them in full, in
\* the ratio of the reserves; only what is consumed is added to the reserves,
\* so base reserve / domain reserve is the same before and after.
C16_DepositInRatio ==
  [][\A pool_id \in DOMAIN pools, user_id \in Users, a \in DepositAmounts :
       Deposited(pool_id, user_id, a[1], a[2])
         => UsedInRatio(pool_id, a[1], a[2])]_vars

\* A deposit into a pool that a trade has moved off the ratio 5 of every
\* amount pair but one.
C16_Witness ==
  /\ last.op = "add_liquidity"
  /\ last.err = "ok"
  /\ \E q \in DOMAIN quotes : applied[q] = 1
  /\ \E pool_id \in DOMAIN pools :
       pools[pool_id].base_token_reserve
         # 5 * pools[pool_id].domain_token_reserve

\* The shares the step minted are to the new total what the amounts consumed
\* are to the new reserves: reserve * total is the same across the step, up
\* to the rounding of the amounts and of the shares.
SharesInProportion(pool_id) ==
  LET D == pools[pool_id].domain_token_reserve
      B == pools[pool_id].base_token_reserve
      T == pools[pool_id].total_liquidity_tokens
      D2 == pools'[pool_id].domain_token_reserve
      B2 == pools'[pool_id].base_token_reserve
      T2 == pools'[pool_id].total_liquidity_tokens
  IN  /\ T2 > T
      /\ CloseProducts(T2 - T, D2, D2 - D, T2, D + T + MulDiv(T, D, B))
      /\ CloseProducts(T2 - T, B2, B2 - B, T2, B + T + MulDiv(T, B, D))
      /\ CloseProducts(D2, T, D, T2, D + T + MulDiv(T, D, B))
      /\ CloseProducts(B2, T, B, T2, B + T + MulDiv(T, B, D))

\* C17: after add_liquidity, shares minted / total shares equals domain used /
\* domain reserve and base used / base reserve (all after the deposit), so
\* the reserve of each asset per share is the same before and after.
C17_NoDilution ==
  [][\A pool_id \in DOMAIN pools, user_id \in Users, a \in DepositAmounts :
       (Deposited(pool_id, user_id, a[1], a[2])
          /\ pools[pool_id].total_liquidity_tokens > 0)
         => SharesInProportion(pool_id)]_vars

C17_Witness ==
  /\ last.op = "add_liquidity"
  /\ last.err = "ok"
  /\ \E pool_id \in DOMAIN pools :
       /\ pools[pool_id].domain_token_reserve = 21000
       /\ pools[pool_id].base_token_reserve = 105000
       /\ pools[pool_id].total_liquidity_tokens = 46957


\* C18 (as claimed): create_liquidity_pool with a domain amount <= 0, a base
\* amount <= 0 or a base amount below minimum_liquidity is rejected and
\* creates no pool and no position and makes no transfer; below the minimum
\* the error is InsufficientLiquidity.  Violated: the domain amount is never
\* looked at, and a pool of 0 domain tokens is stored before the call fails.
C18_InvalidAmountsRejected ==
  [][\A c \in CreateArgs :
       (/\ last'.op = "create_liquidity_pool"
        /\ c[1] \in TokenizedDomains
        /\ c[2] \in supported_base_tokens
        /\ c[3] <= 0 \/ c[4] <= 0 \/ c[4] < minimum_liquidity
        /\ CreatePool(c[1], c[2], c[3], c[4], 1, "none"))
         => /\ last'.err # "ok"
            /\ UNCHANGED <<pools, positions, ledger>>
            /\ c[4] < minimum_liquidity
                 => last'.err = "InsufficientLiquidity"]_vars

\* The pool the step created, with its one position, is what
\* create_liquidity_pool(domain_amount, base_amount, creator_id) is to leave.
Created(pool_id, domain_amount, base_amount, creator_id) ==
  LET pool == pools'[pool_id]
      T == pool.total_liquidity_tokens
      ids == {id \in DOMAIN positions' : positions'[id].pool_id = pool_id}
  IN  /\ pool.domain_token_reserve = domain_amount
      /\ pool.base_token_reserve = base_amount
      /\ T > 0
      \* T is sqrt(domain_amount * base_amount) to the nearest unit
      /\ ProductGE(4 * domain_amount, base_amount, 2 * T - 1, 2 * T - 1)
      /\ ProductGE(2 * T + 1, 2 * T + 1, 4 * domain_amount, base_amount)
      /\ (domain_amount = 1000 /\ base_amount = 5000) => T = 2236
      /\ Cardinality(ids) = 1
      /\ \A id \in ids :
           /\ positions'[id].user_id = creator_id
           /\ positions'[id].liquidity_tokens = T
           /\ positions'[id].initial_domain_amount = domain_amount
           /\ positions'[id].initial_base_amount = base_amount

\* C19: right after a successful create_liquidity_pool the pool's reserves
\* are the two amounts, its total shares are sqrt(domain_amount *
\* base_amount) > 0, and the pool has exactly one position, the creator's,
\* holding all the shares with the two amounts as principal; (1000, 5000)
\* gives 2236 shares.
C19_PoolAsCreated ==
  [][\A c \in LiquidityPools, creator_id \in Users :
       (/\ last'.op = "create_liquidity_pool"
        /\ last'.err = "ok"
        /\ CreatePool(1, "USDC", c[1], c[2], creator_id, "none"))
         => /\ Cardinality(DOMAIN pools' \ DOMAIN pools) = 1
            /\ \A pool_id \in DOMAIN pools' \ DOMAIN pools :
                 Created(pool_id, c[1], c[2], creator_id)]_vars

C19_Witness ==
  /\ last.op = "create_liquidity_pool"
  /\ last.err = "ok"
  /\ \E pool_id \in DOMAIN pools :
       /\ pools[pool_id].domain_token_reserve = 1000
       /\ pools[pool_id].base_token_reserve = 5000
       /\ pools[pool_id].total_liquidity_tokens = 2236
       /\ SharesOf(Current, pool_id, 2) = 2236

\* C20: remove_liquidity by a provider with no position in the pool, or with
\* fewer shares than asked for, fails with InsufficientLiquidity and leaves
\* pools, positions and the ledger as they were; a successful withdrawal
\* never takes more shares than the provider holds.
C20_NoOverdraw ==
  [][\A pool_id \in DOMAIN pools, user_id \in Users :
       \A liquidity_tokens \in RemoveChoices(Current, pool_id, user_id) :
         (/\ last'.op = "remove_liquidity"
          /\ RemoveLiquidity(pool_id, user_id, liquidity_tokens, "none"))
           => /\ (\/ get_user_position(Current, pool_id, user_id) = {}
                  \/ SharesOf(Current, pool_id, user_id) < liquidity_tokens)
                   => /\ last'.err = "InsufficientLiquidity"
                      /\ UNCHANGED <<pools, positions, ledger>>
              /\ last'.err = "ok"
                   => liquidity_tokens <= SharesOf(Current, pool_id, user_id)]_vars

C20_Witness ==
  /\ last.op = "remove_liquidity"
  /\ last.err = "InsufficientLiquidity"
  /\ \E pool_id \in DOMAIN pools :
       /\ get_user_position(Current, pool_id, 1) # {}
       /\ get_user_position(Current, pool_id, 2) = {}


(* ====================== positions held over time ======================== *)
\* A provider creates a pool and holds its position for days, withdrawing
\* part of it from time to time, while traders take quotes and execute
\* them; no call fails midway.
MaxDays == 2

\* The shares a provider asks to withdraw: a fixed 100, or all it holds but
\* a 64th; 100 when it holds none.
HeldChoices(S, pool_id, user_id) ==
  IF get_user_position(S, pool_id, user_id) = {} THEN {100}
  ELSE LET held == PositionOf(S, pool_id, user_id).liquidity_tokens
       IN  {100, held - held \div 64}

\* A day passes on the clock.
DayPasses ==
  /\ now + MinutesPerDay <= MaxDays * MinutesPerDay
  /\ now' = now + MinutesPerDay
  /\ UNCHANGED <<pools, positions, ledger, quotes, issued, applied, inflight,
                 calls, last>>

NextT ==
  \/ \E c \in LiquidityPools, creator_id \in Users :
       CreatePool(1, "USDC", c[1], c[2], creator_id, "none")
  \/ \E pool_id \in DOMAIN pools, user_id \in Users :
       \E liquidity_tokens \in HeldChoices(Current, pool_id, user_id) :
         RemoveLiquidity(pool_id, user_id, liquidity_tokens, "none")
  \/ \E pool_id \in DOMAIN pools, a \in SwapArgs :
       GetTradeQuote(pool_id, a[1], a[2], None)
  \/ \E pool_id \in DOMAIN pools, q \in DOMAIN quotes, trader_id \in Traders :
       ExecuteTrade(pool_id, q, trader_id, "none")
  \/ DayPasses

SpecT == Init /\ [][NextT]_vars

\* C21: in every reachable state a pool with shares outstanding has a
\* positive domain reserve and a positive base reserve.
C21_ReservesWhileShares ==
  \A pool_id \in DOMAIN pools :
    pools[pool_id].total_liquidity_tokens > 0
      => /\ pools[pool_id].domain_token_reserve > 0
         /\ pools[pool_id].base_token_reserve > 0


\* C27: the rewards paid to a position over its withdrawals never exceed
\* the rewards its principal has accrued over the time it was held: a
\* withdrawal after the rewards were settled, at the same clock time, pays
\* no rewards again.
C27_RewardsSettledOnce ==
  \A id \in DOMAIN positions :
    positions[id].rewards_earned
      <= calculate_liquidity_rewards(positions[id],
                                     pools[positions[id].pool_id], now)


(* ----------------------------- pool lifecycle --------------------------- *)
\* A pool is Active while shares are outstanding, and logically Empty once
\* all shares have been withdrawn and both reserves are zero.
Active(pool) == pool.total_liquidity_tokens > 0
Empty(pool) ==
  /\ pool.total_liquidity_tokens = 0
  /\ pool.domain_token_reserve = 0
  /\ pool.base_token_reserve = 0

\* C22: a pool becomes Active on create_liquidity_pool and stays in the
\* store, Active, for as long as shares are outstanding; a pool whose shares
\* have all been withdrawn is Empty; create_liquidity_pool for a pair whose
\* pool is Active fails, and for a pair whose pool is Empty it succeeds and
\* leaves an Active pool for the pair.
C22_Lifecycle ==
  [][/\ \A id \in DOMAIN pools :
          /\ id \in DOMAIN pools'
          /\ pools'[id].total_liquidity_tokens = 0 => Empty(pools'[id])
     /\ \A c \in LiquidityPools, creator_id \in Users :
          (/\ last'.op = "create_liquidity_pool"
           /\ CreatePool(1, "USDC", c[1], c[2], creator_id, "none"))
            => LET existing == get_pool_by_domain_and_base(Current, 1, "USDC")
               IN  /\ (\E id \in existing : Active(pools[id]))
                        => last'.err # "ok"
                   /\ (\A id \in existing : Empty(pools[id]))
                        => /\ last'.err = "ok"
                           /\ \E id \in get_pool_by_domain_and_base(
                                          [pools |-> pools'], 1, "USDC") :
                                Active(pools'[id])]_vars


(* ------------------------------ trading fees ---------------------------- *)
\* The fee of quote q is worth at least a unit of the output asset, so that
\* the rounding of output_amount to a whole unit does not outweigh it.
FeeAboveRounding(q) ==
  quotes[q].fee_amount * OutputReserve(q)
    >= InputReserve(q) + quotes[q].input_amount

\* The reserve of pool p on the input side and on the output side of quote q.
InputSide(p, q) ==
  IF quotes[q].input_token = "domain" THEN p.domain_token_reserve
  ELSE p.base_token_reserve
OutputSide(p, q) ==
  IF quotes[q].input_token = "domain" THEN p.base_token_reserve
  ELSE p.domain_token_reserve

\* C23: a successful execute_trade adds exactly quote.input_amount to the
\* input-side reserve and subtracts exactly quote.output_amount from the
\* output-side reserve, moves the same amounts and nothing else through the
\* ledger, and leaves total shares and every position as they were; for a
\* quote computed from the current pool state with fee_rate > 0 the product
\* of the reserves, hence the redemption value of a share, strictly
\* increases.
C23_FeesAccrueToReserves ==
  [][\A pool_id \in DOMAIN pools, q \in DOMAIN quotes :
       (/\ last' = [op |-> "execute_trade", err |-> "ok"]
        /\ ExecuteTrade(pool_id, q, 2, "none"))
         => /\ InputSide(pools'[pool_id], q)
                 = InputSide(pools[pool_id], q) + quotes[q].input_amount
            /\ OutputSide(pools'[pool_id], q)
                 = OutputSide(pools[pool_id], q) - quotes[q].output_amount
            /\ pools'[pool_id].total_liquidity_tokens
                 = pools[pool_id].total_liquidity_tokens
            /\ positions' = positions
            /\ Settled([ledger |-> ledger'], pool_id).domain
                 - Settled(Current, pool_id).domain
                 = pools'[pool_id].domain_token_reserve
                     - pools[pool_id].domain_token_reserve
            /\ Settled([ledger |-> ledger'], pool_id).base
                 - Settled(Current, pool_id).base
                 = pools'[pool_id].base_token_reserve
                     - pools[pool_id].base_token_reserve
            /\ Settled([ledger |-> ledger'], pool_id).rewards
                 = Settled(Current, pool_id).rewards
            /\ (/\ pools[pool_id] = issued[q].pool
                /\ pools[pool_id].fee_rate > 0
                /\ FeeAboveRounding(q))
                 => ~ProductGE(pools[pool_id].domain_token_reserve,
                               pools[pool_id].base_token_reserve,
                               pools'[pool_id].domain_token_reserve,
                               pools'[pool_id].base_token_reserve)]_vars

C23_Witness ==
  /\ last = [op |-> "execute_trade", err |-> "ok"]
  /\ \E pool_id \in DOMAIN pools, q \in DOMAIN quotes :
       /\ applied[q] = 1
       /\ issued[q].pool_id = pool_id
       /\ FeeAboveRounding(q)
       /\ InputSide(pools[pool_id], q)
            = InputReserve(q) + quotes[q].input_amount
       /\ OutputSide(pools[pool_id], q)
            = OutputReserve(q) - quotes[q].output_amount
       /\ Cardinality(PositionsOf(pool_id)) = 2


(* ============================ position analytics ======================== *)
\* The stored positions of a user.
get_user_positions_query(S, user_id) ==
  {id \in DOMAIN S.positions : S.positions[id].user_id = user_id}

\* ratio_change of a position in a pool, in ten-thousandths: the pool's
\* base/domain ratio over the ratio of the position's principal amounts.
RatioScale == 10000
RatioChange(position, pool) ==
  LET initial_ratio == MulDiv(position.initial_base_amount, PPM,
                              position.initial_domain_amount)
      current_ratio == MulDiv(pool.base_token_reserve, PPM,
                              pool.domain_token_reserve)
  IN  MulDiv(current_ratio, RatioScale, initial_ratio)

\* 2 * ratio_change / (1 + ratio_change) - 1 in millionths: the loss with
\* the square root left out.
ImpermanentLossNoRoot(ratio_change) ==
  MulDiv(2 * ratio_change, PPM, RatioScale + ratio_change) - PPM

\* 2 * sqrt(ratio_change) / (1 + ratio_change) - 1 in millionths; the root
\* is kept in ten-thousandths, as the ratio is.
ImpermanentLossOf(ratio_change) ==
  MulDiv(2 * Sqrt(ratio_change * RatioScale), PPM, RatioScale + ratio_change)
    - PPM

\* _calculate_impermanent_loss: the loss as a percentage, in millionths of a
\* percent, or the error the divisions and the root raise.
calculate_impermanent_loss(position, pool) ==
  IF position.initial_domain_amount = 0 \/ pool.domain_token_reserve = 0
  THEN [err |-> "ZeroDivision"]
  ELSE IF MulDiv(position.initial_base_amount, PPM,
                 position.initial_domain_amount) = 0
  THEN [err |-> "ZeroDivision"]
  ELSE LET ratio_change == RatioChange(position, pool)
       IN  IF ratio_change < 0 THEN [err |-> "MathDomain"]
           ELSE [err |-> "ok", il |-> ImpermanentLossOf(ratio_change) * 100]

\* get_user_positions: for each stored position of the user its share of the
\* pool (percent, in millionths), its current value, its impermanent loss
\* and its pending rewards.
get_user_positions(S, t, user_id) ==
  LET ids == {id \in get_user_positions_query(S, user_id) :
                pool_exists(S, S.positions[id].pool_id)}
      PoolOf(id) == get_pool_by_id(S, S.positions[id].pool_id)
  IN  IF \E id \in ids : PoolOf(id).total_liquidity_tokens = 0
      THEN [err |-> "ZeroDivision", result |-> {}]
      ELSE IF \E id \in ids :
                calculate_impermanent_loss(S.positions[id], PoolOf(id)).err
                  # "ok"
      THEN [err |-> "ZeroDivision", result |-> {}]
      ELSE [err |-> "ok",
            result |->
              {[position_id |-> id,
                pool_id |-> S.positions[id].pool_id,
                liquidity_tokens |-> S.positions[id].liquidity_tokens,
                pool_share |->
                  MulDiv(100 * PPM, S.positions[id].liquidity_tokens,
                         PoolOf(id).total_liquidity_tokens),
                current_domain_value |->
                  MulDiv(PoolOf(id).domain_token_reserve,
                         S.positions[id].liquidity_tokens,
                         PoolOf(id).total_liquidity_tokens),
                current_base_value |->
                  MulDiv(PoolOf(id).base_token_reserve,
                         S.positions[id].liquidity_tokens,
                         PoolOf(id).total_liquidity_tokens),
                impermanent_loss |->
                  calculate_impermanent_loss(S.positions[id], PoolOf(id)).il,
                pending_rewards |->
                  calculate_liquidity_rewards(S.positions[id], PoolOf(id), t)]
               : id \in ids}]

GetUserPositions(user_id) ==
  /\ \E r \in {get_user_positions(Current, now, user_id)} :
       last' = [op |-> "get_user_positions", err |-> r.err,
                result |-> r.result]
  /\ UNCHANGED <<pools, positions, ledger, quotes, issued, applied, inflight,
                 now, calls>>

\* A pool created with <<20000, 100000>> by provider 1; trades have since
\* moved its reserves along the curve to one of these, or have not happened
\* yet (the first pair).
AnalyticsPrincipal == <<20000, 100000>>
AnalyticsReserves == {<<20000, 100000>>, <<15000, 150000>>, <<30000, 75000>>,
                      <<19100, 105000>>, <<20500, 98000>>, <<10000, 200000>>}

\* The stores after the pool's creation and the trades that moved the
\* reserves to r.
AfterTrades(r) ==
  LET S == create_liquidity_pool([pools |-> <<>>, positions |-> <<>>,
                                  ledger |-> <<>>], 0, 1, "USDC",
                                 AnalyticsPrincipal[1], AnalyticsPrincipal[2],
                                 1, "none").store
      pool_id == CHOOSE id \in DOMAIN S.pools : TRUE
      moved == [S.pools[pool_id] EXCEPT !.domain_token_reserve = r[1],
                                        !.base_token_reserve = r[2]]
  IN  transfer_base_tokens(
        transfer_domain_tokens(update_liquidity_pool(S, moved), pool_id,
                               r[1] - AnalyticsPrincipal[1]),
        pool_id, r[2] - AnalyticsPrincipal[2])

\* The first of the trades: it stands in the history for all of them.
FirstTrade(S) ==
  TradeQuoteOf(S.pools[CHOOSE id \in DOMAIN S.pools : TRUE], 0, "USDC", 2000,
               None).quote

InitA ==
  \E r \in AnalyticsReserves :
    /\ pools = AfterTrades(r).pools
    /\ positions = AfterTrades(r).positions
    /\ ledger = AfterTrades(r).ledger
    /\ quotes = IF r = AnalyticsPrincipal THEN <<>>
                ELSE <<FirstTrade(AfterTrades(AnalyticsPrincipal))>>
    /\ issued = IF r = AnalyticsPrincipal THEN <<>>
                ELSE <<[pool_id |-> CHOOSE id \in DOMAIN pools : TRUE,
                        pool |-> AfterTrades(AnalyticsPrincipal).pools[
                                   CHOOSE id \in DOMAIN pools : TRUE]]>>
    /\ applied = IF r = AnalyticsPrincipal THEN <<>> ELSE <<1>>
    /\ inflight = [p \in Procs |-> Idle]
    /\ now = 0
    /\ calls = 0
    /\ last = [op |-> "init", err |-> "ok"]

NextA ==
  \/ \E pool_id \in DOMAIN pools, user_id \in Users, a \in DepositAmounts :
       AddLiquidity(pool_id, user_id, a[1], a[2], "none")
  \/ \E pool_id \in DOMAIN pools, user_id \in Users :
       \E liquidity_tokens \in RemoveChoices(Current, pool_id, user_id) :
         RemoveLiquidity(pool_id, user_id, liquidity_tokens, "none")
  \/ \E user_id \in Users : GetUserPositions(user_id)

SpecA == InitA /\ [][NextA]_vars

\* The rounding of the computed loss, in millionths of a percent: what one
\* unit of the root (a ten-thousandth) is worth, a hundredth of a percent.
ILRounding == 100 * (PPM \div RatioScale)

\* The pool's ratio equals the ratio of the position's principal amounts,
\* is at least a twentieth away from it, is exactly twice it.
SameRatio(position, pool) ==
  /\ ProductGE(pool.base_token_reserve, position.initial_domain_amount,
               position.initial_base_amount, pool.domain_token_reserve)
  /\ ProductGE(position.initial_base_amount, pool.domain_token_reserve,
               pool.base_token_reserve, position.initial_domain_amount)
RatioMoved(position, pool) ==
  \/ ProductGE(20 * pool.base_token_reserve, position.initial_domain_amount,
               21 * position.initial_base_amount, pool.domain_token_reserve)
  \/ ProductGE(20 * position.initial_base_amount, pool.domain_token_reserve,
               21 * pool.base_token_reserve, position.initial_domain_amount)
RatioDoubled(position, pool) ==
  /\ ProductGE(pool.base_token_reserve, position.initial_domain_amount,
               2 * position.initial_base_amount, pool.domain_token_reserve)
  /\ ProductGE(2 * position.initial_base_amount, pool.domain_token_reserve,
               pool.base_token_reserve, position.initial_domain_amount)

\* C24: for every position with positive principal amounts in a pool with
\* positive reserves the impermanent loss get_user_positions reports is
\* <= 0 (up to its rounding); it is 0 when the pool's ratio equals that of
\* the principal amounts and negative when the ratio has moved; it is
\* -5.72 percent when the ratio has doubled; and it is 0 (up to its
\* rounding) for every position while no trade has been executed.
C24_ImpermanentLoss ==
  last.op = "get_user_positions" /\ last.err = "ok"
    => \A e \in last.result :
         LET position == positions[e.position_id]
             pool == pools[e.pool_id]
         IN  (/\ position.initial_domain_amount > 0
              /\ position.initial_base_amount > 0
              /\ pool.domain_token_reserve > 0
              /\ pool.base_token_reserve > 0)
               => /\ e.impermanent_loss <= ILRounding
                  /\ SameRatio(position, pool) => e.impermanent_loss = 0
                  /\ RatioMoved(position, pool) => e.impermanent_loss < 0
                  /\ RatioDoubled(position, pool)
                       => Abs(e.impermanent_loss + 5720000) <= ILRounding
                  /\ quotes = <<>> => Abs(e.impermanent_loss) <= ILRounding

C24_Witness ==
  /\ last.op = "get_user_positions"
  /\ last.err = "ok"
  /\ \E e \in last.result :
       /\ RatioDoubled(positions[e.position_id], pools[e.pool_id])
       /\ e.impermanent_loss < 0
  /\ \E id \in DOMAIN positions :
       /\ positions[id].user_id = 2
       /\ SameRatio(positions[id], pools[positions[id].pool_id])


(* ------------------------------ quote validity -------------------------- *)
\* C25: a quote's valid_until is the clock at its issue plus the fixed five
\* minutes and never changes; the clock never goes back; execute_trade
\* fails with QuoteExpired exactly when the clock is past valid_until, so
\* the quote is still accepted at now = valid_until, and a quote that has
\* expired stays expired.
C25_ValidUntil ==
  /\ [][/\ now' >= now
        /\ \A q \in DOMAIN quotes :
             /\ q \in DOMAIN quotes'
             /\ quotes'[q].valid_until = quotes[q].valid_until
             /\ now > quotes[q].valid_until => now' > quotes'[q].valid_until
        /\ \A q \in (DOMAIN quotes') \ (DOMAIN quotes) :
             /\ last'.op = "get_trade_quote"
             /\ quotes'[q].valid_until = now + quote_ttl]_vars
  /\ [][\A pool_id \in PoolIdArgs, q \in DOMAIN quotes,
           fail \in TransferFails :
          (/\ last'.op = "execute_trade"
           /\ ExecuteTrade(pool_id, q, 2, fail))
            => (last'.err = "QuoteExpired" <=> now > quotes[q].valid_until)]_vars

C25_Witness ==
  /\ last = [op |-> "execute_trade", err |-> "ok"]
  /\ \E q \in DOMAIN quotes :
       /\ now = quotes[q].valid_until
       /\ now = quote_ttl
       /\ applied[q] = 1


(* ---------------------------- slippage tolerance ------------------------ *)
\* C26: get_trade_quote called with a slippage tolerance in [0, 1), the
\* value 0 included, returns minimum_output = output_amount * (1 - the
\* tolerance supplied); the default tolerance is used only when the caller
\* supplies none.
C26_SuppliedSlippageUsed ==
  [][\A pool_id \in PoolIdArgs, a \in QuoteArgs :
       (/\ last' = [op |-> "get_trade_quote", err |-> "ok"]
        /\ GetTradeQuote(pool_id, a[1], a[2], a[3]))
         => LET quote == quotes'[Len(quotes')]
                slippage == IF a[3] = None THEN slippage_tolerance ELSE a[3]
            IN  quote.minimum_output
                  = MulDiv(quote.output_amount, PPM - slippage, PPM)]_vars


(* --------------------------- non-positive amounts ----------------------- *)
\* C29: get_trade_quote for an input amount <= 0, add_liquidity with an
\* amount <= 0 and remove_liquidity of <= 0 shares each return an error,
\* produce no quote and leave reserves, total shares and positions as they
\* were; hence every quote handed out has input_amount > 0 and
\* output_amount > 0.
C29_NonPositiveRejected ==
  /\ [](\A q \in DOMAIN quotes :
          quotes[q].input_amount > 0 /\ quotes[q].output_amount > 0)
  /\ [][/\ \A pool_id \in PoolIdArgs, a \in QuoteArgs :
             (/\ last'.op = "get_trade_quote"
              /\ a[2] <= 0
              /\ GetTradeQuote(pool_id, a[1], a[2], a[3]))
               => /\ last'.err # "ok"
                  /\ UNCHANGED <<quotes, pools, positions>>
        /\ \A pool_id \in PoolIdArgs, user_id \in Users, a \in AddAmounts,
              fail \in TransferFails :
             (/\ last'.op = "add_liquidity"
              /\ (a[1] <= 0 \/ a[2] <= 0)
              /\ AddLiquidity(pool_id, user_id, a[1], a[2], fail))
               => /\ last'.err # "ok"
                  /\ Holdings(pools', positions') = Holdings(pools, positions)
        /\ \A pool_id \in PoolIdArgs, user_id \in Users,
              liquidity_tokens \in RemoveTokens, fail \in RemoveFails :
             (/\ last'.op = "remove_liquidity"
              /\ liquidity_tokens <= 0
              /\ RemoveLiquidity(pool_id, user_id, liquidity_tokens, fail))
               => /\ last'.err # "ok"
                  /\ Holdings(pools', positions')
                       = Holdings(pools, positions)]_vars


(* ------------------------ bookkeeping and settlement -------------------- *)
\* C30: after every call, whether it ran to its end or failed part-way,
\* each reserve recorded for a pool equals the net amount of that asset the
\* ledger has moved into the pool, and nothing has been moved for a pool
\* that is not recorded.
C30_BookkeepingMatchesSettlement ==
  /\ \A pool_id \in DOMAIN pools :
       /\ pools[pool_id].domain_token_reserve
            = Settled(Current, pool_id).domain
       /\ pools[pool_id].base_token_reserve = Settled(Current, pool_id).base
  /\ \A pool_id \in (DOMAIN ledger) \ (DOMAIN pools) :
       /\ ledger[pool_id].domain = 0
       /\ ledger[pool_id].base = 0


(* ------------------------- one position per owner ----------------------- *)
\* C28: there is at most one position per pool and owner, and no stored
\* position without shares; an owner's first deposit creates its position,
\* every later add_liquidity by the owner adds the minted shares and the
\* amounts used to that same position, and a position leaves the store only
\* by a withdrawal of all its shares.
C28_OnePositionPerOwner ==
  /\ [](\A pool_id \in DOMAIN pools, user_id \in Users :
          /\ Cardinality(get_user_position(Current, pool_id, user_id)) <= 1
          /\ \A id \in get_user_position(Current, pool_id, user_id) :
               positions[id].liquidity_tokens > 0)
  /\ [][/\ \A pool_id \in DOMAIN pools, user_id \in Users,
              a \in DepositAmounts :
             (/\ last' = [op |-> "add_liquidity", err |-> "ok"]
              /\ AddLiquidity(pool_id, user_id, a[1], a[2], "none"))
               => LET held == get_user_position(Current, pool_id, user_id)
                      now_held ==
                        get_user_position([positions |-> positions'],
                                          pool_id, user_id)
                      minted == pools'[pool_id].total_liquidity_tokens
                                  - pools[pool_id].total_liquidity_tokens
                      used_domain == pools'[pool_id].domain_token_reserve
                                       - pools[pool_id].domain_token_reserve
                      used_base == pools'[pool_id].base_token_reserve
                                     - pools[pool_id].base_token_reserve
                  IN  /\ Cardinality(now_held) = 1
                      /\ held = {}
                           => \A id \in now_held :
                                positions'[id].liquidity_tokens = minted
                      /\ \A id \in held :
                           /\ id \in now_held
                           /\ positions'[id].liquidity_tokens
                                = positions[id].liquidity_tokens + minted
                           /\ positions'[id].initial_domain_amount
                                = positions[id].initial_domain_amount
                                    + used_domain
                           /\ positions'[id].initial_base_amount
                                = positions[id].initial_base_amount
                                    + used_base
        /\ \A id \in (DOMAIN positions) \ (DOMAIN positions') :
             /\ last' = [op |-> "remove_liquidity", err |-> "ok"]
             /\ pools[positions[id].pool_id].total_liquidity_tokens
                  - pools'[positions[id].pool_id].total_liquidity_tokens
                  = positions[id].liquidity_tokens]_vars

====
